---- MODULE Spec2Model ----
(***************************************************************************)
(* Auto-grading engine of the CBT application (src/src/services/supabase.ts)*)
(* calculatePoints and its four type-specific scorers are pure functions;   *)
(* they are modelled as operators and exercised by the specification Spec,  *)
(* whose initial states range over bounded sets of joined answer rows.      *)
(* gradeSession, the only caller, is modelled by SpecSession, and           *)
(* saveAnswer against the student_answers table by SpecStore.               *)
(* SpecPoints applies the scorer to fully correct answers over the stored   *)
(* points values, SpecMatching is MatchingComponent (src/unnamed/part_003), *)
(* SpecAccess is the exam_sessions and student_answers tables under their   *)
(* row level security policies, and SpecApp is the user state of App        *)
(* (src/unnamed/part_000).                                                  *)
(*                                                                          *)
(* JavaScript values:                                                       *)
(*   - a string is a sequence of one-character strings;                     *)
(*   - an optional value (undefined / null / absent column) is None, a      *)
(*     present value v is Some(v);                                          *)
(*   - a number is an exact fraction [num, den]; den = 0 stands for the     *)
(*     non-finite results of a division by zero (NaN, Infinity).            *)
(***************************************************************************)
EXTENDS Integers, Sequences, FiniteSets, TLC

VARIABLES
  answer,           \* the joined answer row handed to calculatePoints
  outcome,          \* what that call of calculatePoints produced
  pc,               \* "ready" before the call, "done" after it, "session" in SpecSession
  student_answers,  \* the rows of the student_answers table
  graded,           \* what the last gradeSession call resolved to
  saved,            \* what the last saveAnswer call resolved to
  latest,           \* per (session, question), the payload of its last saveAnswer call
  exam_sessions,    \* the rows of the exam_sessions table
  leftSide,         \* MatchingComponent: the ids of the left items, in display order
  rightSide,        \* MatchingComponent: the ids of the right items, in display order
  connections,      \* MatchingComponent: the connections map, item id to item id
  activeId,         \* MatchingComponent: the item shown as being dragged
  readOnly,         \* MatchingComponent: the readOnly prop
  dragging,         \* the item of the drag gesture in progress, if any
  onMatch,          \* the map last passed to the onMatch prop, if it was called
  users,            \* the user_type of every row of the users table
  uid,              \* auth.uid() of the last request made to the database
  reply,            \* what the database answered to that request
  user,             \* App: the user state
  loading,          \* App: the loading state
  authUser,         \* the user of the auth client's current session, if any
  currentUser,      \* the getCurrentUser() call made when App mounts
  authEvents        \* the auth state changes not yet delivered to App's listener

accessVars == <<users, uid, reply>>

appVars == <<user, loading, authUser, currentUser, authEvents>>

serviceVars == <<answer, outcome, student_answers, graded, saved, latest, exam_sessions,
                 accessVars>>

componentVars == <<leftSide, rightSide, connections, activeId, readOnly, dragging, onMatch>>

uiVars == <<componentVars, appVars>>

vars == <<pc, serviceVars, uiVars>>

----------------------------------------------------------------------------
(* Optional values *)

None == <<>>

Some(x) == <<x>>

IsSome(m) == m # None

Get(m) == m[1]

\* no MatchingComponent is mounted
NoComponent ==
  /\ leftSide = <<>>
  /\ rightSide = <<>>
  /\ connections = <<>>
  /\ activeId = None
  /\ readOnly = FALSE
  /\ dragging = None
  /\ onMatch = None

\* App is not mounted
NoApp ==
  /\ user = None
  /\ loading = TRUE
  /\ authUser = None
  /\ currentUser = [state |-> "none"]
  /\ authEvents = <<>>

NoUi == NoComponent /\ NoApp

\* no request under row-level security has been made
NoAccess ==
  /\ users = <<>>
  /\ uid = None
  /\ reply = [op |-> "none"]

----------------------------------------------------------------------------
(* Numbers *)

RECURSIVE Gcd(_, _)
Gcd(a, b) == IF b = 0 THEN a ELSE Gcd(b, a % b)

Abs(n) == IF n < 0 THEN 0 - n ELSE n

\* the fraction n / d in lowest terms; d = 0 is NaN (0/0), Infinity (1/0) or
\* -Infinity (-1/0)
Rat(n, d) ==
  IF d = 0 THEN [num |-> IF n = 0 THEN 0 ELSE IF n < 0 THEN 0 - 1 ELSE 1, den |-> 0]
  ELSE LET g == Gcd(Abs(n), Abs(d))
           s == IF d < 0 THEN 0 - 1 ELSE 1
       IN  [num |-> s * (n \div g), den |-> s * (d \div g)]

Num(n) == Rat(n, 1)

Zero == Num(0)

IsNaN(x) == x.den = 0 /\ x.num = 0

\* a / b on integers
Div(a, b) == Rat(a, b)

\* x * y
Mul(x, y) ==
  IF x.den = 0 \/ y.den = 0
  THEN (IF IsNaN(x) \/ IsNaN(y) \/ x.num = 0 \/ y.num = 0
        THEN Rat(0, 0)
        ELSE Rat(x.num * y.num, 0))
  ELSE Rat(x.num * y.num, x.den * y.den)

\* x <= y on finite numbers
Leq(x, y) == x.den # 0 /\ y.den # 0 /\ x.num * y.den <= y.num * x.den

\* Math.max(0, x): NaN if x is NaN
Max0(x) == IF IsNaN(x) THEN x ELSE IF x.num < 0 THEN Zero ELSE x

----------------------------------------------------------------------------
(* Strings *)

\* String.prototype.toLowerCase on the model's alphabet
LowerChar(c) == IF c = "P" THEN "p" ELSE IF c = "A" THEN "a" ELSE c

toLowerCase(s) == [i \in 1..Len(s) |-> LowerChar(s[i])]

IsSpace(c) == c = " "

RECURSIVE trimStart(_)
trimStart(s) == IF s # <<>> /\ IsSpace(Head(s)) THEN trimStart(Tail(s)) ELSE s

RECURSIVE trimEnd(_)
trimEnd(s) ==
  IF s # <<>> /\ IsSpace(s[Len(s)]) THEN trimEnd(SubSeq(s, 1, Len(s) - 1)) ELSE s

\* String.prototype.trim
trim(s) == trimEnd(trimStart(s))

----------------------------------------------------------------------------
(* Results of a call: a returned number, or an uncaught TypeError *)

Return(x) == [threw |-> FALSE, points |-> x]

Throw == [threw |-> TRUE, points |-> Zero]

\* question.points || 1  (an absent, null or zero points value is falsy)
PointsOr1(question) ==
  IF IsSome(question.points) /\ Get(question.points) # 0
  THEN Num(Get(question.points))
  ELSE Num(1)

\* answer.selected_options?.[0]
FirstSelected(a) ==
  IF IsSome(a.selected_options) /\ Len(Get(a.selected_options)) >= 1
  THEN Some(Get(a.selected_options)[1])
  ELSE None

\* x || []  for an optional array
OrEmpty(m) == IF IsSome(m) THEN Get(m) ELSE <<>>

\* question.options?.find(opt => opt.is_correct): the index of the first
\* option flagged correct, 0 when there is none (undefined)
FindCorrect(question) ==
  LET opts == OrEmpty(question.options)
      hits == {i \in 1..Len(opts) : opts[i].is_correct}
  IN  IF hits = {} THEN 0 ELSE CHOOSE i \in hits : \A j \in hits : i <= j

gradeMultipleChoice(a, question) ==
  LET selectedOptionId == FirstSelected(a)
      c == FindCorrect(question)
  IN  IF c # 0 /\ selectedOptionId = Get(question.options)[c].id
      THEN Return(PointsOr1(question))
      ELSE Return(Zero)

\* gradeMultipleSelect without the early return on an empty correct set
gradeMultipleSelect_NoGuard(a, question) ==
  LET selectedIds == OrEmpty(a.selected_options)
      opts == OrEmpty(question.options)
      correctOptions == {i \in 1..Len(opts) : opts[i].is_correct}
      correctIds == {opts[i].id : i \in correctOptions}
      correctSelected ==
        Cardinality({k \in 1..Len(selectedIds) : Some(selectedIds[k]) \in correctIds})
      incorrectSelected == Len(selectedIds) - correctSelected
      score == Max0(Div(correctSelected - incorrectSelected, Cardinality(correctOptions)))
  IN  Return(Mul(score, PointsOr1(question)))

gradeMultipleSelect(a, question) ==
  LET selectedIds == OrEmpty(a.selected_options)
      opts == OrEmpty(question.options)
      correctOptions == {i \in 1..Len(opts) : opts[i].is_correct}
      correctIds == {opts[i].id : i \in correctOptions}
      correctSelected ==
        Cardinality({k \in 1..Len(selectedIds) : Some(selectedIds[k]) \in correctIds})
      incorrectSelected == Len(selectedIds) - correctSelected
      score == Max0(Div(correctSelected - incorrectSelected, Cardinality(correctOptions)))
  IN  IF Cardinality(correctOptions) = 0
      THEN Return(Zero)
      ELSE Return(Mul(score, PointsOr1(question)))

\* the property name a value is turned into when it indexes an object
PropertyKey(m) == IF IsSome(m) THEN Get(m) ELSE <<"undefined">>

\* studentMatches[key]
Lookup(studentMatches, key) ==
  IF PropertyKey(key) \in DOMAIN studentMatches
  THEN Some(studentMatches[PropertyKey(key)])
  ELSE None

\* gradeMatching taking one pair's credit off for every entry of the student's
\* map that satisfies no pair
gradeMatching_Penalty(a, question) ==
  LET studentMatches == IF IsSome(a.matching_answers) THEN Get(a.matching_answers) ELSE <<>>
      correctPairs == OrEmpty(question.matching_pairs)
      correctCount ==
        Cardinality({i \in 1..Len(correctPairs) :
          Lookup(studentMatches, correctPairs[i].left_item) = correctPairs[i].right_item})
      missed ==
        Cardinality({k \in DOMAIN studentMatches :
          \A i \in 1..Len(correctPairs) :
            ~(/\ PropertyKey(correctPairs[i].left_item) = k
              /\ correctPairs[i].right_item = Some(studentMatches[k]))})
  IN  IF Len(correctPairs) = 0
      THEN Return(Zero)
      ELSE Return(Max0(Mul(Div(correctCount - missed, Len(correctPairs)), PointsOr1(question))))

\* gradeMatching comparing the proposed and the stored right item without
\* regard to letter case
gradeMatching_IgnoreCase(a, question) ==
  LET studentMatches == IF IsSome(a.matching_answers) THEN Get(a.matching_answers) ELSE <<>>
      correctPairs == OrEmpty(question.matching_pairs)
      fold(m) == IF IsSome(m) THEN Some(toLowerCase(Get(m))) ELSE None
      correctCount ==
        Cardinality({i \in 1..Len(correctPairs) :
          fold(Lookup(studentMatches, correctPairs[i].left_item))
            = fold(correctPairs[i].right_item)})
  IN  IF Len(correctPairs) = 0
      THEN Return(Zero)
      ELSE Return(Mul(Div(correctCount, Len(correctPairs)), PointsOr1(question)))

gradeMatching(a, question) ==
  LET studentMatches == IF IsSome(a.matching_answers) THEN Get(a.matching_answers) ELSE <<>>
      correctPairs == OrEmpty(question.matching_pairs)
      correctCount ==
        Cardinality({i \in 1..Len(correctPairs) :
          Lookup(studentMatches, correctPairs[i].left_item) = correctPairs[i].right_item})
  IN  IF Len(correctPairs) = 0
      THEN Return(Zero)
      ELSE Return(Mul(Div(correctCount, Len(correctPairs)), PointsOr1(question)))

\* the for-of loop of gradeShortAnswer from key i on
RECURSIVE ScanKeys(_, _, _, _)
ScanKeys(studentAnswer, correctAnswers, i, question) ==
  IF i > Len(correctAnswers) THEN Return(Zero)
  ELSE LET correct == correctAnswers[i]
       IN  IF ~IsSome(correct.correct_answer) THEN Throw
           ELSE LET correctText == toLowerCase(Get(correct.correct_answer))
                IN  IF correct.is_case_sensitive
                    THEN (IF studentAnswer = correctText
                          THEN Return(PointsOr1(question))
                          ELSE ScanKeys(studentAnswer, correctAnswers, i + 1, question))
                    ELSE (IF studentAnswer = toLowerCase(correctText)
                          THEN Return(PointsOr1(question))
                          ELSE ScanKeys(studentAnswer, correctAnswers, i + 1, question))

\* gradeShortAnswer awarding the share of the keys that equal the answer
gradeShortAnswer_PartialCredit(a, question) ==
  LET studentAnswer == toLowerCase(trim(IF IsSome(a.answer_text) THEN Get(a.answer_text) ELSE <<>>))
      correctAnswers == OrEmpty(question.short_answer_keys)
      hits == Cardinality({i \in 1..Len(correctAnswers) :
                /\ IsSome(correctAnswers[i].correct_answer)
                /\ studentAnswer = toLowerCase(Get(correctAnswers[i].correct_answer))})
  IN  IF Len(correctAnswers) = 0
      THEN Return(Zero)
      ELSE Return(Mul(Div(hits, Len(correctAnswers)), PointsOr1(question)))

\* gradeShortAnswer without trimming the student's text
gradeShortAnswer_NoTrim(a, question) ==
  LET studentAnswer == toLowerCase(IF IsSome(a.answer_text) THEN Get(a.answer_text) ELSE <<>>)
      correctAnswers == OrEmpty(question.short_answer_keys)
  IN  ScanKeys(studentAnswer, correctAnswers, 1, question)

gradeShortAnswer(a, question) ==
  LET studentAnswer == toLowerCase(trim(IF IsSome(a.answer_text) THEN Get(a.answer_text) ELSE <<>>))
      correctAnswers == OrEmpty(question.short_answer_keys)
  IN  ScanKeys(studentAnswer, correctAnswers, 1, question)

calculatePoints(a) ==
  IF ~IsSome(a.question) THEN Return(Zero)
  ELSE LET question == Get(a.question)
       IN  CASE question.question_type = "multiple_choice" -> gradeMultipleChoice(a, question)
             [] question.question_type = "multiple_select" -> gradeMultipleSelect(a, question)
             [] question.question_type = "matching" -> gradeMatching(a, question)
             [] question.question_type = "short_answer" -> gradeShortAnswer(a, question)
             [] OTHER -> Return(Zero)

----------------------------------------------------------------------------
(* Bounded inputs of the scorer *)

\* QuestionEditor accepts points from 1 to MaxPoints
MaxPoints == 10

MaxOptions == 3

MaxSel == 3

MaxPairs == 5

MaxSmallPairs == 2

MaxKeys == 2

MaxText == 3

PointValues == {None, Some(1), Some(4), Some(MaxPoints)}

OptionIds == <<"A", "B", "C", "D", "E", "F">>

\* every sequence over S of length at most n
SeqsUpTo(S, n) == UNION {[1..k -> S] : k \in 0..n}

\* the options of a question as stored: distinct ids, any flags
WellFormedOptionLists ==
  UNION {{[i \in 1..n |-> [id |-> Some(OptionIds[i]), is_correct |-> f[i]]] :
            f \in [1..n -> BOOLEAN]} : n \in 0..MaxOptions}

\* the same with the id of one option record missing
MalformedOptionLists ==
  UNION {{[l EXCEPT ![i].id = None] : i \in 1..Len(l)} : l \in WellFormedOptionLists}

OptionLists == WellFormedOptionLists \cup MalformedOptionLists

Question(t, p, o, m, k) ==
  [question_type |-> t, points |-> p, options |-> o, matching_pairs |-> m,
   short_answer_keys |-> k]

AnswerRow(sel, m, text, q) ==
  [selected_options |-> sel, matching_answers |-> m, answer_text |-> text, question |-> q]

SelectionLists == SeqsUpTo({OptionIds[i] : i \in 1..MaxOptions}, MaxSel)

\* student maps: functions from left-item strings to right-item strings
SmallLefts == {<<"a">>, <<"b">>}

SmallRights == {<<"P">>, <<"p">>}

SmallMaps == UNION {[D -> SmallRights] : D \in SUBSET SmallLefts}

SmallPairLists ==
  SeqsUpTo([left_item : {None} \cup {Some(x) : x \in SmallLefts},
            right_item : {None} \cup {Some(x) : x \in SmallRights}], MaxSmallPairs)

LeftLetters == <<"a", "b", "c", "d", "e", "f", "g">>

LeftOf(i) == <<LeftLetters[i]>>

RightOf(i) == <<"P", LeftLetters[i]>>

\* n pairs with distinct left items
LongPairList(n) == [i \in 1..n |-> [left_item |-> Some(LeftOf(i)), right_item |-> Some(RightOf(i))]]

\* what a student may propose for the i-th left item: nothing (0), the right
\* item (1), the right item in lower case (2), the right item and a blank (3)
Proposal(i, c) ==
  CASE c = 1 -> RightOf(i)
    [] c = 2 -> toLowerCase(RightOf(i))
    [] OTHER -> RightOf(i) \o <<" ">>

ExtraLeft == <<"z">>

\* the student map with proposal c[i] for the i-th pair and, when e holds, an
\* entry under a key that no pair has
LongMap(n, c, e) ==
  [k \in {LeftOf(i) : i \in {j \in 1..n : c[j] # 0}} \cup (IF e THEN {ExtraLeft} ELSE {}) |->
     IF k = ExtraLeft THEN RightOf(1)
     ELSE LET i == CHOOSE j \in 1..n : LeftOf(j) = k IN Proposal(i, c[i])]

LongMaps(n) == {LongMap(n, c, e) : c \in [1..n -> 0..3], e \in BOOLEAN}

Chars == {"P", "p", " "}

Texts == SeqsUpTo(Chars, MaxText)

\* key texts as QuestionEditor stores them; a key added and left unfilled is
\* the empty string
KeyTexts == {<<>>, <<"P">>, <<"p">>, <<" ", "P">>}

KeyLists ==
  SeqsUpTo([correct_answer : {Some(t) : t \in KeyTexts}, is_case_sensitive : BOOLEAN]
             \cup {[correct_answer |-> None, is_case_sensitive |-> FALSE]}, MaxKeys)

\* payloads that populate one answer column, or none
NoPayload == AnswerRow(None, None, None, None)

SelectedPayloads == {[NoPayload EXCEPT !.selected_options = Some(l)] : l \in SelectionLists}

TextPayloads == {[NoPayload EXCEPT !.answer_text = Some(t)] : t \in Texts}

SmallMapPayloads == {[NoPayload EXCEPT !.matching_answers = Some(m)] : m \in SmallMaps}

LongMapPayloads(n) == {[NoPayload EXCEPT !.matching_answers = Some(m)] : m \in LongMaps(n)}

\* one payload of each shape, offered to questions of every type
SamplePayloads ==
  {NoPayload,
   [NoPayload EXCEPT !.selected_options = Some(<<"A">>)],
   [NoPayload EXCEPT !.matching_answers = Some([k \in {<<"a">>} |-> <<"P">>])],
   [NoPayload EXCEPT !.answer_text = Some(<<"P">>)]}

OptionQuestions ==
  {Question(t, p, o, None, None) :
     t \in {"multiple_choice", "multiple_select"}, p \in PointValues,
     o \in {None} \cup {Some(l) : l \in OptionLists}}

SmallMatchingQuestions ==
  {Question("matching", p, None, m, None) :
     p \in PointValues, m \in {None} \cup {Some(l) : l \in SmallPairLists}}

LongMatchingQuestion(n, p) == Question("matching", p, None, Some(LongPairList(n)), None)

ShortAnswerQuestions ==
  {Question("short_answer", p, None, None, k) :
     p \in PointValues, k \in {None} \cup {Some(l) : l \in KeyLists}}

\* essay questions and rows of a type the dispatcher does not know
OtherQuestions ==
  {Question(t, p, None, None, None) : t \in {"essay", "true_false"}, p \in PointValues}

Join(payload, q) == [payload EXCEPT !.question = q]

----------------------------------------------------------------------------
(* The scorer applied to one joined answer row *)

InitOption ==
  \E q \in OptionQuestions, a \in SelectedPayloads \cup SamplePayloads :
    answer = Join(a, Some(q))

InitSmallMatching ==
  \E q \in SmallMatchingQuestions, a \in SmallMapPayloads \cup SamplePayloads :
    answer = Join(a, Some(q))

InitLongMatching ==
  \E n \in 1..MaxPairs, p \in PointValues :
    \E a \in LongMapPayloads(n) : answer = Join(a, Some(LongMatchingQuestion(n, p)))

InitShortAnswer ==
  \E q \in ShortAnswerQuestions, a \in TextPayloads \cup SamplePayloads :
    answer = Join(a, Some(q))

InitOther ==
  \/ \E q \in OtherQuestions, a \in SamplePayloads : answer = Join(a, Some(q))
  \/ \E a \in SamplePayloads : answer = a

NoResult == [status |-> "none", data |-> <<>>]

Init ==
  /\ \/ InitOption
     \/ InitSmallMatching
     \/ InitLongMatching
     \/ InitShortAnswer
     \/ InitOther
  /\ outcome = Return(Zero)
  /\ pc = "ready"
  /\ student_answers = <<>>
  /\ graded = NoResult
  /\ saved = "none"
  /\ latest = <<>>
  /\ exam_sessions = <<>>
  /\ NoUi
  /\ NoAccess

\* one call of calculatePoints on the row
Score ==
  /\ pc = "ready"
  /\ outcome' = calculatePoints(answer)
  /\ pc' = "done"
  /\ UNCHANGED <<answer, student_answers, graded, saved, latest>>
  /\ UNCHANGED exam_sessions
  /\ UNCHANGED uiVars
  /\ UNCHANGED accessVars

Next == Score

Spec == Init /\ [][Next]_vars

----------------------------------------------------------------------------
(* gradeSession over the stored rows of a session *)

MaxRows == 2

Sessions == {"s1", "s2"}

\* the exam_sessions rows of the two sessions: one still running, one
\* handed in
ExamSessionRows ==
  <<[id |-> "s1", exam_id |-> "e1", student_id |-> "u1", status |-> "active"],
    [id |-> "s2", exam_id |-> "e1", student_id |-> "u2", status |-> "submitted"]>>

\* the questions table with the nested rows of question_options,
\* matching_pairs and short_answer_keys, one question per type
QuestionsTable ==
  [qid \in {"q_mc", "q_ms", "q_match", "q_short", "q_essay"} |->
     CASE qid = "q_mc" ->
            Question("multiple_choice", Some(4),
                     Some(<<[id |-> Some("A"), is_correct |-> TRUE],
                            [id |-> Some("B"), is_correct |-> FALSE]>>), None, None)
       [] qid = "q_ms" ->
            Question("multiple_select", Some(4),
                     Some(<<[id |-> Some("A"), is_correct |-> TRUE],
                            [id |-> Some("B"), is_correct |-> FALSE]>>), None, None)
       [] qid = "q_match" ->
            Question("matching", Some(4), None, Some(LongPairList(1)), None)
       [] qid = "q_short" ->
            Question("short_answer", Some(4), None, None,
                     Some(<<[correct_answer |-> Some(<<"P">>), is_case_sensitive |-> FALSE]>>))
       [] OTHER -> Question("essay", Some(4), None, None, None)]

\* a stored row: the payload columns, the keys, and the grading columns at
\* their column defaults
StoredRows ==
  {[session_id |-> s, question_id |-> q, selected_options |-> a.selected_options,
    matching_answers |-> a.matching_answers, answer_text |-> a.answer_text,
    is_auto_graded |-> FALSE, points_awarded |-> None] :
     s \in Sessions, q \in {None} \cup {Some(i) : i \in DOMAIN QuestionsTable},
     a \in SamplePayloads}

\* question:questions(*) -- the columns of the questions row itself; the
\* nested option, pair and key rows are not selected
EmbedQuestion(question_id) ==
  IF IsSome(question_id) /\ Get(question_id) \in DOMAIN QuestionsTable
  THEN LET q == QuestionsTable[Get(question_id)]
       IN  Some(Question(q.question_type, q.points, None, None, None))
  ELSE None

\* .select('*, question:questions(*)').eq('session_id', sessionId)
SelectAnswers(sessionId) ==
  LET idx == {i \in 1..Len(student_answers) : student_answers[i].session_id = sessionId}
      RECURSIVE Pick(_)
      Pick(i) ==
        IF i > Len(student_answers) THEN <<>>
        ELSE (IF i \in idx
              THEN <<[session_id |-> student_answers[i].session_id,
                      question_id |-> student_answers[i].question_id,
                      selected_options |-> student_answers[i].selected_options,
                      matching_answers |-> student_answers[i].matching_answers,
                      answer_text |-> student_answers[i].answer_text,
                      is_auto_graded |-> student_answers[i].is_auto_graded,
                      points_awarded |-> student_answers[i].points_awarded,
                      question |-> EmbedQuestion(student_answers[i].question_id)]>>
              ELSE <<>>) \o Pick(i + 1)
  IN  Pick(1)

\* the map preceded by a filter that drops the rows without a joined question
GradeRows_SkipUnjoined(answers) ==
  LET kept == SelectSeq(answers, LAMBDA r : IsSome(r.question))
  IN  [i \in 1..Len(kept) |->
         [kept[i] EXCEPT !.is_auto_graded = TRUE,
                         !.points_awarded = Some(calculatePoints(kept[i]).points)]]

\* answers.map(answer => ({...answer, is_auto_graded: true, points_awarded: ...}))
GradeRows(answers) ==
  [i \in 1..Len(answers) |->
     [answers[i] EXCEPT !.is_auto_graded = TRUE,
                        !.points_awarded = Some(calculatePoints(answers[i]).points)]]

InitSession ==
  /\ student_answers \in SeqsUpTo(StoredRows, MaxRows)
  /\ graded = NoResult
  /\ answer = NoPayload
  /\ outcome = Return(Zero)
  /\ pc = "session"
  /\ saved = "none"
  /\ latest = <<>>
  /\ exam_sessions = ExamSessionRows
  /\ NoUi
  /\ NoAccess

\* gradeSession followed by an update of the graded rows in the table
GradeSessionOk_WriteBack(sessionId) ==
  /\ pc = "session"
  /\ LET answers == SelectAnswers(sessionId)
     IN  graded' = [status |-> "data", data |-> GradeRows(answers)]
  /\ student_answers' =
       [i \in 1..Len(student_answers) |->
          IF student_answers[i].session_id = sessionId
          THEN [student_answers[i] EXCEPT !.is_auto_graded = TRUE,
                                          !.points_awarded = Some(Zero)]
          ELSE student_answers[i]]
  /\ UNCHANGED <<answer, outcome, pc, saved, latest>>
  /\ UNCHANGED exam_sessions
  /\ UNCHANGED uiVars
  /\ UNCHANGED accessVars

\* gradeSession(sessionId) when the select succeeds
GradeSessionOk(sessionId) ==
  /\ pc = "session"
  /\ LET answers == SelectAnswers(sessionId)
     IN  graded' = IF \E i \in 1..Len(answers) : calculatePoints(answers[i]).threw
                   THEN [status |-> "rejected", data |-> <<>>]
                   ELSE [status |-> "data", data |-> GradeRows(answers)]
  /\ UNCHANGED <<answer, outcome, pc, student_answers, saved, latest>>
  /\ UNCHANGED exam_sessions
  /\ UNCHANGED uiVars
  /\ UNCHANGED accessVars

\* gradeSession(sessionId) grading the rows it has although the select
\* reported an error
GradeSessionError_StillGrades(sessionId) ==
  /\ pc = "session"
  /\ graded' = [status |-> "error", data |-> GradeRows(SelectAnswers(sessionId))]
  /\ UNCHANGED <<answer, outcome, pc, student_answers, saved, latest>>
  /\ UNCHANGED exam_sessions
  /\ UNCHANGED uiVars
  /\ UNCHANGED accessVars

\* gradeSession(sessionId) when the select reports an error
GradeSessionError(sessionId) ==
  /\ pc = "session"
  /\ graded' = [status |-> "error", data |-> <<>>]
  /\ UNCHANGED <<answer, outcome, pc, student_answers, saved, latest>>
  /\ UNCHANGED exam_sessions
  /\ UNCHANGED uiVars
  /\ UNCHANGED accessVars

NextSession ==
  \/ \E s \in Sessions : GradeSessionOk(s)
  \/ \E s \in Sessions : GradeSessionError(s)

SpecSession == InitSession /\ [][NextSession]_vars

(* saveAnswer against the student_answers table *)

\* the column sets of student_answers that carry a unique index: the
\* primary key only
StudentAnswersUniqueKeys == {{"id"}}

\* onConflict: 'session_id,question_id'
OnConflict == {"session_id", "question_id"}

\* the questions answered through saveAnswer
SaveQuestions == {"q_mc", "q_short"}

\* the answer objects passed to saveAnswer: the single-shape payloads and
\* one that carries two shapes
SavePayloads ==
  SamplePayloads
    \cup {[NoPayload EXCEPT !.selected_options = Some(<<"A">>),
                            !.answer_text = Some(<<"P">>)]}

\* { session_id, question_id, ...answer }: the columns the request carries;
\* the others take their defaults
NewRow(sessionId, questionId, a) ==
  [session_id |-> sessionId, question_id |-> Some(questionId),
   selected_options |-> a.selected_options,
   matching_answers |-> a.matching_answers, answer_text |-> a.answer_text,
   is_auto_graded |-> FALSE, points_awarded |-> None]

\* ON CONFLICT ... DO UPDATE SET: only the columns of the request are set
MergeRow(old, a) ==
  [old EXCEPT
     !.selected_options = IF IsSome(a.selected_options) THEN a.selected_options ELSE @,
     !.matching_answers = IF IsSome(a.matching_answers) THEN a.matching_answers ELSE @,
     !.answer_text = IF IsSome(a.answer_text) THEN a.answer_text ELSE @]

\* INSERT ... ON CONFLICT (session_id, question_id) DO UPDATE
UpsertRow(sessionId, questionId, a) ==
  LET hit == {i \in 1..Len(student_answers) :
                /\ student_answers[i].session_id = sessionId
                /\ student_answers[i].question_id = Some(questionId)}
  IN  IF hit = {}
      THEN Append(student_answers, NewRow(sessionId, questionId, a))
      ELSE [i \in 1..Len(student_answers) |->
              IF i \in hit THEN MergeRow(student_answers[i], a)
              ELSE student_answers[i]]

InitStore ==
  /\ student_answers = <<>>
  /\ graded = NoResult
  /\ answer = NoPayload
  /\ outcome = Return(Zero)
  /\ pc = "store"
  /\ saved = "none"
  /\ latest = <<>>
  /\ exam_sessions = ExamSessionRows
  /\ NoUi
  /\ NoAccess

\* saveAnswer(sessionId, questionId, answer): the database accepts an
\* ON CONFLICT target only if a unique index covers exactly its columns;
\* otherwise the statement fails and nothing is written
SaveAnswer(sessionId, questionId, a) ==
  /\ pc = "store"
  /\ latest' = (<<sessionId, questionId>> :> a) @@ latest
  /\ IF OnConflict \in StudentAnswersUniqueKeys
     THEN /\ student_answers' = UpsertRow(sessionId, questionId, a)
          /\ saved' = "data"
     ELSE /\ student_answers' = student_answers
          /\ saved' = "error"
  /\ UNCHANGED <<answer, outcome, pc, graded>>
  /\ UNCHANGED exam_sessions
  /\ UNCHANGED uiVars
  /\ UNCHANGED accessVars

NextStore ==
  \E s \in Sessions, q \in SaveQuestions, a \in SavePayloads : SaveAnswer(s, q, a)

SpecStore == InitStore /\ [][NextStore]_vars

(* MatchingComponent: drag and drop, remove-connection, reset, save *)

MaxItems == 2

\* the id of the item at index i of a side: `left-${index}`, `right-${index}`
ItemId(side, i) == <<side, i>>

\* id.startsWith('left'), id.startsWith('right')
SideOf(id) == id[1]

\* the map m without the keys outside D
Restrict(m, D) == [k \in D \cap DOMAIN m |-> m[k]]

\* arrayMove(array, from, to): the element at from taken out and put in at to
arrayMove(array, from, to) ==
  LET rest == [i \in 1..(Len(array) - 1) |-> IF i < from THEN array[i] ELSE array[i + 1]]
  IN  [i \in 1..Len(array) |->
         IF i < to THEN rest[i] ELSE IF i = to THEN array[from] ELSE rest[i - 1]]

\* array.findIndex(item => item.id === id), counted from 1
findIndex(array, id) == CHOOSE i \in 1..Len(array) : array[i] = id

\* the initialConnections prop: none, or the first left item tied to the
\* first right item
InitialConnections ==
  {<<>>,
   (ItemId("left", 0) :> ItemId("right", 0)) @@ (ItemId("right", 0) :> ItemId("left", 0))}

NoService ==
  /\ answer = NoPayload
  /\ outcome = Return(Zero)
  /\ student_answers = <<>>
  /\ graded = NoResult
  /\ saved = "none"
  /\ latest = <<>>
  /\ exam_sessions = <<>>
  /\ NoAccess

InitMatching ==
  /\ \E n \in 1..MaxItems : leftSide = [i \in 1..n |-> ItemId("left", i - 1)]
  /\ \E n \in 1..MaxItems : rightSide = [i \in 1..n |-> ItemId("right", i - 1)]
  /\ connections \in InitialConnections
  /\ activeId = None
  /\ readOnly \in BOOLEAN
  /\ dragging = None
  /\ onMatch = None
  /\ pc = "matching"
  /\ NoService
  /\ NoApp

\* the items on the screen
Items == {leftSide[i] : i \in 1..Len(leftSide)} \cup {rightSide[i] : i \in 1..Len(rightSide)}

\* the user picks an item up; handleDragStart
DragStart(id) ==
  /\ pc = "matching"
  /\ dragging = None
  /\ dragging' = Some(id)
  /\ activeId' = IF readOnly THEN activeId ELSE Some(id)
  /\ UNCHANGED <<leftSide, rightSide, connections, readOnly, onMatch, pc, serviceVars>>
  /\ UNCHANGED appVars

\* the connections after the dragged item is dropped on an item of the
\* other side
Connect(active, over) ==
  LET c1 == Restrict(connections, {k \in DOMAIN connections : connections[k] # active})
      c2 == Restrict(c1, DOMAIN c1 \ {active})
  IN  (active :> over) @@ (over :> active) @@ c2

\* the user drops the dragged item outside every item; handleDragEnd with
\* over = null
DragEndOutside ==
  /\ pc = "matching"
  /\ IsSome(dragging)
  /\ dragging' = None
  /\ activeId' = IF readOnly THEN activeId ELSE None
  /\ UNCHANGED <<leftSide, rightSide, connections, readOnly, onMatch, pc, serviceVars>>
  /\ UNCHANGED appVars

\* the user drops the dragged item on the item over; handleDragEnd
DragEnd(over) ==
  /\ pc = "matching"
  /\ IsSome(dragging)
  /\ dragging' = None
  /\ LET active == Get(dragging)
     IN  IF readOnly
         THEN UNCHANGED <<leftSide, rightSide, connections, activeId, onMatch>>
         ELSE /\ activeId' = None
              /\ CASE SideOf(active) = "left" /\ SideOf(over) = "left" ->
                        /\ leftSide' = arrayMove(leftSide, findIndex(leftSide, active),
                                                 findIndex(leftSide, over))
                        /\ UNCHANGED <<rightSide, connections, onMatch>>
                     [] SideOf(active) = "right" /\ SideOf(over) = "right" ->
                        /\ rightSide' = arrayMove(rightSide, findIndex(rightSide, active),
                                                  findIndex(rightSide, over))
                        /\ UNCHANGED <<leftSide, connections, onMatch>>
                     [] OTHER ->
                        /\ connections' = Connect(active, over)
                        /\ onMatch' = Some(connections')
                        /\ UNCHANGED <<leftSide, rightSide>>
  /\ UNCHANGED <<readOnly, pc, serviceVars>>
  /\ UNCHANGED appVars

\* handleRemoveConnection(itemId) without the call of onMatch
RemoveConnection_Silent(itemId) ==
  /\ pc = "matching"
  /\ IF ~readOnly /\ itemId \in DOMAIN connections
     THEN connections' = Restrict(connections,
                                  DOMAIN connections \ {itemId, connections[itemId]})
     ELSE UNCHANGED connections
  /\ UNCHANGED <<leftSide, rightSide, activeId, readOnly, dragging, onMatch, pc, serviceVars>>
  /\ UNCHANGED appVars

\* handleRemoveConnection(itemId)
RemoveConnection(itemId) ==
  /\ pc = "matching"
  /\ IF ~readOnly /\ itemId \in DOMAIN connections
     THEN /\ connections' = Restrict(connections,
                                     DOMAIN connections \ {itemId, connections[itemId]})
          /\ onMatch' = Some(connections')
     ELSE UNCHANGED <<connections, onMatch>>
  /\ UNCHANGED <<leftSide, rightSide, activeId, readOnly, dragging, pc, serviceVars>>
  /\ UNCHANGED appVars

\* handleReset without the readOnly test
Reset_NoReadOnlyTest ==
  /\ pc = "matching"
  /\ connections' = <<>>
  /\ onMatch' = Some(<<>>)
  /\ UNCHANGED <<leftSide, rightSide, activeId, readOnly, dragging, pc, serviceVars>>
  /\ UNCHANGED appVars

\* handleReset
Reset ==
  /\ pc = "matching"
  /\ IF ~readOnly
     THEN connections' = <<>> /\ onMatch' = Some(<<>>)
     ELSE UNCHANGED <<connections, onMatch>>
  /\ UNCHANGED <<leftSide, rightSide, activeId, readOnly, dragging, pc, serviceVars>>
  /\ UNCHANGED appVars

\* the "Simpan Jawaban" button, rendered unless readOnly
SaveClick ==
  /\ pc = "matching"
  /\ ~readOnly
  /\ onMatch' = Some(connections)
  /\ UNCHANGED <<leftSide, rightSide, connections, activeId, readOnly, dragging, pc, serviceVars>>
  /\ UNCHANGED appVars

NextMatching ==
  \/ \E id \in Items : DragStart(id)
  \/ DragEndOutside
  \/ \E over \in Items : DragEnd(over)
  \/ \E id \in Items : RemoveConnection(id)
  \/ Reset
  \/ SaveClick

SpecMatching == InitMatching /\ [][NextMatching]_vars

(* Requests made to the database under the row-level-security policies *)

MaxAnswers == 1

\* user_type IN ('admin', 'teacher', 'student')
UserTypes == {"admin", "teacher", "student"}

\* the users table: two students and a teacher
UsersTable == [u \in {"u1", "u2", "t1"} |-> IF u = "t1" THEN "teacher" ELSE "student"]

Exams == {"e1"}

InitAccess ==
  /\ users = UsersTable
  /\ uid = None
  /\ reply = [op |-> "none"]
  /\ exam_sessions = <<>>
  /\ student_answers = <<>>
  /\ answer = NoPayload
  /\ outcome = Return(Zero)
  /\ graded = NoResult
  /\ saved = "none"
  /\ latest = <<>>
  /\ pc = "access"
  /\ NoUi

\* EXISTS (SELECT 1 FROM users WHERE id = auth.uid() AND user_type IN ('admin', 'teacher'))
IsStaff(u) == users[u] \in {"admin", "teacher"}

\* EXISTS (SELECT 1 FROM exam_sessions es WHERE es.id = session_id AND es.student_id = auth.uid())
OwnsSession(u, sessionId) ==
  \E i \in 1..Len(exam_sessions) :
    exam_sessions[i].id = sessionId /\ exam_sessions[i].student_id = u

\* createExamSession on a table without UNIQUE(exam_id, student_id)
CreateExamSession_NoUnique(u, examId, studentId) ==
  /\ pc = "access"
  /\ uid' = Some(u)
  /\ IF studentId = u
     THEN /\ exam_sessions' =
               Append(exam_sessions,
                      [id |-> Len(exam_sessions) + 1, exam_id |-> examId,
                       student_id |-> studentId, status |-> "active"])
          /\ reply' = [op |-> "createExamSession", exam_id |-> examId,
                       student_id |-> studentId, status |-> "data"]
     ELSE /\ exam_sessions' = exam_sessions
          /\ reply' = [op |-> "createExamSession", exam_id |-> examId,
                       student_id |-> studentId, status |-> "error"]
  /\ UNCHANGED <<pc, users, answer, outcome, student_answers, graded, saved, latest, uiVars>>

\* createExamSession(examId, studentId) called by user u: the insert policy
\* of exam_sessions, then UNIQUE(exam_id, student_id)
CreateExamSession(u, examId, studentId) ==
  /\ pc = "access"
  /\ uid' = Some(u)
  /\ IF /\ studentId = u
        /\ \A i \in 1..Len(exam_sessions) :
             ~(exam_sessions[i].exam_id = examId /\ exam_sessions[i].student_id = studentId)
     THEN /\ exam_sessions' =
               Append(exam_sessions,
                      [id |-> Len(exam_sessions) + 1, exam_id |-> examId,
                       student_id |-> studentId, status |-> "active"])
          /\ reply' = [op |-> "createExamSession", exam_id |-> examId,
                       student_id |-> studentId, status |-> "data"]
     ELSE /\ exam_sessions' = exam_sessions
          /\ reply' = [op |-> "createExamSession", exam_id |-> examId,
                       student_id |-> studentId, status |-> "error"]
  /\ UNCHANGED <<pc, users, answer, outcome, student_answers, graded, saved, latest, uiVars>>

\* INSERT INTO student_answers by user u: the insert policy of student_answers
InsertAnswer(u, sessionId, a) ==
  /\ pc = "access"
  /\ Len(student_answers) < MaxAnswers
  /\ uid' = Some(u)
  /\ IF OwnsSession(u, sessionId)
     THEN /\ student_answers' = Append(student_answers, NewRow(sessionId, "q_mc", a))
          /\ reply' = [op |-> "insert", status |-> "data"]
     ELSE /\ student_answers' = student_answers
          /\ reply' = [op |-> "insert", status |-> "error"]
  /\ UNCHANGED <<pc, users, exam_sessions, answer, outcome, graded, saved, latest, uiVars>>

\* SELECT * FROM student_answers by user u: the two select policies of
\* student_answers
ReadAnswers(u) ==
  /\ pc = "access"
  /\ uid' = Some(u)
  /\ reply' = [op |-> "select", status |-> "data",
               rows |-> SelectSeq(student_answers,
                                  LAMBDA r : OwnsSession(u, r.session_id) \/ IsStaff(u))]
  /\ UNCHANGED <<pc, users, exam_sessions, student_answers, answer, outcome, graded,
                 saved, latest, uiVars>>

\* UPDATE users SET user_type = t WHERE id = target, by user u: the update
\* policy of users lets the statement see the user's own row only
UpdateProfile(u, target, t) ==
  /\ pc = "access"
  /\ uid' = Some(u)
  /\ users' = IF target = u THEN [users EXCEPT ![u] = t] ELSE users
  /\ reply' = [op |-> "update", status |-> "data"]
  /\ UNCHANGED <<pc, exam_sessions, student_answers, answer, outcome, graded, saved,
                 latest, uiVars>>

NextAccess ==
  \/ \E u \in DOMAIN users, e \in Exams, st \in DOMAIN users : CreateExamSession(u, e, st)
  \/ \E u \in DOMAIN users, i \in 1..Len(exam_sessions) :
       InsertAnswer(u, exam_sessions[i].id, [NoPayload EXCEPT !.answer_text = Some(<<"P">>)])
  \/ \E u \in DOMAIN users : ReadAnswers(u)
  \/ \E u \in DOMAIN users, target \in DOMAIN users, t \in UserTypes : UpdateProfile(u, target, t)

SpecAccess == InitAccess /\ [][NextAccess]_vars

(* App: the user state fed by getCurrentUser() and by onAuthStateChange *)

MaxEvents == 2

\* the accounts that sign in
Accounts == {"u1", "u2"}

\* App mounts: getCurrentUser() is called and the listener is subscribed;
\* the auth client may announce its initial session to a new listener
InitApp ==
  /\ user = None
  /\ loading = TRUE
  /\ authUser \in {None} \cup {Some(u) : u \in Accounts}
  /\ currentUser = [state |-> "pending"]
  /\ authEvents \in {<<>>, <<authUser>>}
  /\ pc = "app"
  /\ NoService
  /\ NoComponent

\* supabase.auth.getUser() reads the user of the session there is
GetUserAnswers ==
  /\ pc = "app"
  /\ currentUser.state = "pending"
  /\ currentUser' = [state |-> "resolved", user |-> authUser]
  /\ UNCHANGED <<user, loading, authUser, authEvents, pc, serviceVars, componentVars>>

\* .then((user) => { setUser(user); setLoading(false) })
CurrentUserDelivered ==
  /\ pc = "app"
  /\ currentUser.state = "resolved"
  /\ user' = currentUser.user
  /\ loading' = FALSE
  /\ currentUser' = [state |-> "delivered"]
  /\ UNCHANGED <<authUser, authEvents, pc, serviceVars, componentVars>>

\* a sign-in (s is the account) or a sign-out (s is None) changes the
\* session; the change is queued for the listener
AuthStateChange(s) ==
  /\ pc = "app"
  /\ Len(authEvents) < MaxEvents
  /\ s # authUser
  /\ authUser' = s
  /\ authEvents' = Append(authEvents, s)
  /\ UNCHANGED <<user, loading, currentUser, pc, serviceVars, componentVars>>

\* onAuthStateChange((event, session) => { setUser(session?.user || null); setLoading(false) })
AuthEventDelivered ==
  /\ pc = "app"
  /\ authEvents # <<>>
  /\ user' = Head(authEvents)
  /\ loading' = FALSE
  /\ authEvents' = Tail(authEvents)
  /\ UNCHANGED <<authUser, currentUser, pc, serviceVars, componentVars>>

NextApp ==
  \/ GetUserAnswers
  \/ CurrentUserDelivered
  \/ \E s \in {None} \cup {Some(u) : u \in Accounts} : AuthStateChange(s)
  \/ AuthEventDelivered

SpecApp == InitApp /\ [][NextApp]_vars

(* The scorer applied to fully correct answers, over the stored points *)

\* points INTEGER DEFAULT 1: the column holds null or any integer; the
\* values from 0 up to the largest the editor accepts are taken
StoredPoints == {None} \cup {Some(p) : p \in 0..MaxPoints}

\* the ids of the options flagged correct, in stored order
CorrectIds(o) ==
  LET c == SelectSeq(o, LAMBDA opt : opt.is_correct)
  IN  [i \in 1..Len(c) |-> Get(c[i].id)]

\* keys without blanks
PlainKeyLists ==
  SeqsUpTo([correct_answer : {Some(<<"P">>), Some(<<"p">>)}, is_case_sensitive : BOOLEAN],
           MaxKeys) \ {<<>>}

\* a question of each auto-graded type joined with an answer that has
\* everything right: the first correct option, all correct options, every
\* pair, the text of the first key
InitPoints ==
  /\ \E p \in StoredPoints :
       \/ \E o \in {l \in WellFormedOptionLists : Len(CorrectIds(l)) > 0} :
            \/ answer = Join([NoPayload EXCEPT !.selected_options = Some(<<CorrectIds(o)[1]>>)],
                              Some(Question("multiple_choice", p, Some(o), None, None)))
            \/ answer = Join([NoPayload EXCEPT !.selected_options = Some(CorrectIds(o))],
                              Some(Question("multiple_select", p, Some(o), None, None)))
       \/ \E n \in 1..MaxPairs :
            answer = Join([NoPayload EXCEPT
                             !.matching_answers = Some(LongMap(n, [i \in 1..n |-> 1], FALSE))],
                          Some(LongMatchingQuestion(n, p)))
       \/ \E k \in PlainKeyLists :
            answer = Join([NoPayload EXCEPT !.answer_text = k[1].correct_answer],
                          Some(Question("short_answer", p, None, None, Some(k))))
  /\ outcome = Return(Zero)
  /\ pc = "ready"
  /\ student_answers = <<>>
  /\ graded = NoResult
  /\ saved = "none"
  /\ latest = <<>>
  /\ exam_sessions = <<>>
  /\ NoUi
  /\ NoAccess

SpecPoints == InitPoints /\ [][Next]_vars

----------------------------------------------------------------------------
(* Properties of the scorer, stated on the states of Spec *)

Scored == pc = "done" /\ IsSome(answer.question)

TheQuestion == Get(answer.question)

AutoTypes == {"multiple_choice", "multiple_select", "matching", "short_answer"}

\* the maximum score of a question: its points, 1 when it stores none
\* (points INTEGER DEFAULT 1)
FullPoints(q) == IF IsSome(q.points) THEN Num(Get(q.points)) ELSE Num(1)

\* the list and the set of selected option ids of the row
SelectedList == IF IsSome(answer.selected_options) THEN Get(answer.selected_options) ELSE <<>>

SelectedSet == {SelectedList[i] : i \in 1..Len(SelectedList)}

OptionsOf(q) == IF IsSome(q.options) THEN Get(q.options) ELSE <<>>

PairsOf(q) == IF IsSome(q.matching_pairs) THEN Get(q.matching_pairs) ELSE <<>>

KeysOf(q) == IF IsSome(q.short_answer_keys) THEN Get(q.short_answer_keys) ELSE <<>>

\* every option, pair and key record of the question has all its fields
WellFormed(q) ==
  /\ \A i \in 1..Len(OptionsOf(q)) : IsSome(OptionsOf(q)[i].id)
  /\ \A i \in 1..Len(PairsOf(q)) :
       IsSome(PairsOf(q)[i].left_item) /\ IsSome(PairsOf(q)[i].right_item)
  /\ \A i \in 1..Len(KeysOf(q)) : IsSome(KeysOf(q)[i].correct_answer)

\* the ids of the options flagged correct
CorrectSet(q) == {Get(OptionsOf(q)[i].id) : i \in {j \in 1..Len(OptionsOf(q)) :
                    OptionsOf(q)[j].is_correct /\ IsSome(OptionsOf(q)[j].id)}}

\* C1: for a question of an auto-graded type (its correct-answer records
\* complete) and any answer, the awarded points lie between 0 and the
\* question's points.
C1_ScoreWithinPoints ==
  (Scored /\ TheQuestion.question_type \in AutoTypes /\ WellFormed(TheQuestion))
    => /\ ~outcome.threw
       /\ Leq(Zero, outcome.points)
       /\ Leq(outcome.points, FullPoints(TheQuestion))

\* C2: a multiple_choice answer earns the full points exactly when it selects
\* exactly one option and that option is the correct one, and 0 otherwise.
C2_SingleCorrectSelection ==
  (/\ Scored
   /\ TheQuestion.question_type = "multiple_choice"
   /\ WellFormed(TheQuestion)
   /\ Cardinality(CorrectSet(TheQuestion)) <= 1)
    => outcome = Return(IF Len(SelectedList) = 1 /\ SelectedList[1] \in CorrectSet(TheQuestion)
                        THEN FullPoints(TheQuestion)
                        ELSE Zero)

\* C3: a multiple_select answer with selection S on a question with correct
\* set C, n = |C| > 0, earns max(0, (|C \cap S| - |S \ C|) / n) * points.
C3_PartialCreditFormula ==
  (/\ Scored
   /\ TheQuestion.question_type = "multiple_select"
   /\ WellFormed(TheQuestion)
   /\ CorrectSet(TheQuestion) # {})
    => LET C == CorrectSet(TheQuestion)
           S == SelectedSet
           net == Cardinality(C \cap S) - Cardinality(S \ C)
       IN  outcome = Return(IF net <= 0 THEN Zero
                            ELSE Rat(net * FullPoints(TheQuestion).num, Cardinality(C)))

\* the student's matching map of the row
StudentMap == IF IsSome(answer.matching_answers) THEN Get(answer.matching_answers) ELSE <<>>

\* the pairs (left, right) that the student's map sends left to exactly right
SatisfiedPairs(q) ==
  {i \in 1..Len(PairsOf(q)) :
     /\ Get(PairsOf(q)[i].left_item) \in DOMAIN StudentMap
     /\ StudentMap[Get(PairsOf(q)[i].left_item)] = Get(PairsOf(q)[i].right_item)}

\* C4: a matching answer on a question with m > 0 pairs earns
\* (number of pairs the student's map satisfies exactly) / m * points.
C4_MatchingFraction ==
  (/\ Scored
   /\ TheQuestion.question_type = "matching"
   /\ WellFormed(TheQuestion)
   /\ Len(PairsOf(TheQuestion)) > 0)
    => outcome = Return(Rat(Cardinality(SatisfiedPairs(TheQuestion))
                              * FullPoints(TheQuestion).num,
                            Len(PairsOf(TheQuestion))))

\* C4 witness: 10 points, 5 pairs, 3 of them satisfied and 2 proposed in the
\* wrong letter case or with a trailing blank: the score is 6.
C4_ThreeOfFive ==
  /\ Scored
  /\ TheQuestion = LongMatchingQuestion(5, Some(10))
  /\ Cardinality(SatisfiedPairs(TheQuestion)) = 3
  /\ DOMAIN StudentMap = {LeftOf(i) : i \in 1..5} \cup {ExtraLeft}
  /\ outcome = Return(Num(6))

\* the student's text of the row
AnswerText == IF IsSome(answer.answer_text) THEN Get(answer.answer_text) ELSE <<>>

\* C5: with a single case-sensitive key, an answer is accepted only when its
\* casing matches the key, and the key itself is accepted.
C5_CaseSensitiveKey ==
  (/\ Scored
   /\ TheQuestion.question_type = "short_answer"
   /\ WellFormed(TheQuestion)
   /\ Len(KeysOf(TheQuestion)) = 1
   /\ KeysOf(TheQuestion)[1].is_case_sensitive)
    => LET key == Get(KeysOf(TheQuestion)[1].correct_answer)
       IN  /\ outcome.points # Zero => trim(AnswerText) = key
           /\ (AnswerText = key /\ trim(key) = key) => outcome = Return(FullPoints(TheQuestion))

\* the keys that equal the answer once the answer is trimmed and letter case
\* is ignored
MatchingKeys(q) ==
  {i \in 1..Len(KeysOf(q)) :
     toLowerCase(trim(AnswerText)) = toLowerCase(Get(KeysOf(q)[i].correct_answer))}

\* C6: an answer that equals a case-insensitive key after trimming and
\* ignoring letter case earns the full points; when all keys are
\* case-insensitive and none equals it so, it earns 0.
C6_CaseInsensitiveKey ==
  (/\ Scored
   /\ TheQuestion.question_type = "short_answer"
   /\ WellFormed(TheQuestion))
    => /\ (\E i \in MatchingKeys(TheQuestion) : ~KeysOf(TheQuestion)[i].is_case_sensitive)
            => outcome = Return(FullPoints(TheQuestion))
       /\ (/\ MatchingKeys(TheQuestion) = {}
           /\ \A i \in 1..Len(KeysOf(TheQuestion)) : ~KeysOf(TheQuestion)[i].is_case_sensitive)
            => outcome = Return(Zero)

\* C6 witness: key "P", not case-sensitive, 4 points; the answer " p " with a
\* leading and a trailing blank earns 4.
C6_BlankPaddedLowerCase ==
  /\ Scored
  /\ TheQuestion.question_type = "short_answer"
  /\ KeysOf(TheQuestion) = <<[correct_answer |-> Some(<<"P">>), is_case_sensitive |-> FALSE]>>
  /\ AnswerText = <<" ", "p", " ">>
  /\ outcome = Return(Num(4))

\* C8: a row whose question is missing, of an unknown type, or carries a
\* correct-answer record with a missing field scores 0 and does not throw.
C8_BadRowScoresZero ==
  (/\ pc = "done"
   /\ \/ ~IsSome(answer.question)
      \/ TheQuestion.question_type \notin AutoTypes \cup {"essay"}
      \/ ~WellFormed(TheQuestion))
    => outcome = Return(Zero)

\* the question has no correct answer to score against
Degenerate(q) ==
  \/ /\ q.question_type \in {"multiple_choice", "multiple_select"}
     /\ \A i \in 1..Len(OptionsOf(q)) : ~OptionsOf(q)[i].is_correct
  \/ q.question_type = "matching" /\ Len(PairsOf(q)) = 0
  \/ q.question_type = "short_answer" /\ Len(KeysOf(q)) = 0

\* C10: a question with no option flagged correct, no pairs, or no keys
\* scores 0 for every answer and does not throw.
C10_DegenerateScoresZero ==
  (Scored /\ Degenerate(TheQuestion)) => outcome = Return(Zero)

\* C10 witness: a multiple_select question with options, none of them
\* flagged correct, answered with a non-empty selection, has been scored 0.
C10_NoCorrectOptionSelected ==
  /\ Scored
  /\ TheQuestion.question_type = "multiple_select"
  /\ Len(OptionsOf(TheQuestion)) >= 2
  /\ WellFormed(TheQuestion)
  /\ Degenerate(TheQuestion)
  /\ Len(SelectedList) >= 1
  /\ outcome = Return(Zero)

----------------------------------------------------------------------------
(* Properties of gradeSession, stated on the states of SpecSession *)

GradedRows == IF graded.status = "data" THEN graded.data ELSE <<>>

\* C7: gradeSession does not flag the answer to an essay question as
\* auto-graded.
C7_EssayNotAutoGraded ==
  \A i \in 1..Len(GradedRows) :
    (IsSome(GradedRows[i].question) /\ Get(GradedRows[i].question).question_type = "essay")
      => ~GradedRows[i].is_auto_graded

\* C9: gradeSession does not flag as auto-graded a row whose question is
\* missing.
C9_MissingQuestionUngraded ==
  \A i \in 1..Len(GradedRows) :
    ~IsSome(GradedRows[i].question) => ~GradedRows[i].is_auto_graded

----------------------------------------------------------------------------
(* Further properties of the scorer, stated on the states of Spec *)

\* the answer column that the scorer of question type t reads
FittingColumn(t) ==
  CASE t \in {"multiple_choice", "multiple_select"} -> answer.selected_options
    [] t = "matching" -> answer.matching_answers
    [] OTHER -> answer.answer_text

\* the row populates a payload column, but not the one its question's type uses
MisfitPayload ==
  /\ ~IsSome(FittingColumn(TheQuestion.question_type))
  /\ \/ IsSome(answer.selected_options)
     \/ IsSome(answer.matching_answers)
     \/ IsSome(answer.answer_text)

\* C11: an answer whose payload shape does not fit the question's type scores
\* 0 and does not throw, for each of the four auto-graded types.
C11_MisfitPayloadScoresZero ==
  (/\ Scored
   /\ TheQuestion.question_type \in AutoTypes
   /\ WellFormed(TheQuestion)
   /\ MisfitPayload)
    => outcome = Return(Zero)

----------------------------------------------------------------------------
(* Further properties of gradeSession, stated on the states of SpecSession *)

\* the graded row joined with its question as the questions table and its
\* nested tables store it
WithStoredQuestion(row) ==
  [row EXCEPT !.question = Some(QuestionsTable[Get(row.question_id)])]

\* the row's payload is fully correct against the stored correct-answer data
FullyCorrect(row) ==
  /\ IsSome(row.question_id)
  /\ QuestionsTable[Get(row.question_id)].question_type \in AutoTypes
  /\ calculatePoints(WithStoredQuestion(row))
       = Return(FullPoints(QuestionsTable[Get(row.question_id)]))

\* C12: gradeSession awards the question's full points to an answer that is
\* fully correct against the stored correct-answer data.
C12_FullyCorrectEarnsFullPoints ==
  \A i \in 1..Len(GradedRows) :
    FullyCorrect(GradedRows[i])
      => GradedRows[i].points_awarded
           = Some(FullPoints(QuestionsTable[Get(GradedRows[i].question_id)]))

\* the stored rows of session s, in table order
RowsOf(s) == SelectSeq(student_answers, LAMBDA r : r.session_id = s)

\* the points of a stored row computed from that row and its question alone
OwnPoints(r) ==
  calculatePoints(AnswerRow(r.selected_options, r.matching_answers, r.answer_text,
                            EmbedQuestion(r.question_id))).points

\* C14: the result list of gradeSession has exactly one entry per answer of
\* the session, in whatever order and company the answers are stored, and the
\* points of each entry are those of its own answer alone.
C14_OneEntryPerAnswerOwnPoints ==
  graded.status = "data"
    => \E s \in Sessions :
         /\ Len(graded.data) = Len(RowsOf(s))
         /\ \A i \in 1..Len(graded.data) :
              /\ graded.data[i].session_id = s
              /\ graded.data[i].question_id = RowsOf(s)[i].question_id
              /\ graded.data[i].points_awarded = Some(OwnPoints(RowsOf(s)[i]))

\* C14 witness: a session with two answers to different questions, one of
\* them without a question, has been graded into two entries.
C14_TwoAnswersGraded ==
  /\ graded.status = "data"
  /\ Len(graded.data) = 2
  /\ graded.data[1].question_id = None
  /\ graded.data[2].question_id = Some("q_mc")
  /\ graded.data[2].selected_options = Some(<<"A">>)

\* the two fields that the result of gradeSession sets on top of the fetched row
GradingFields == {"is_auto_graded", "points_awarded"}

\* C15: a step of gradeSession leaves the stored answers as they are, and
\* every row it returns has the fields of the fetched row, all with their
\* fetched values except is_auto_graded and points_awarded.
C15_GradingOnlyReads ==
  [][/\ student_answers' = student_answers
     /\ graded'.status = "data"
          => \E s \in Sessions :
               LET fetched == SelectAnswers(s)
               IN  /\ Len(graded'.data) = Len(fetched)
                   /\ \A i \in 1..Len(fetched) :
                        /\ DOMAIN graded'.data[i] = DOMAIN fetched[i]
                        /\ \A f \in DOMAIN fetched[i] \ GradingFields :
                             graded'.data[i][f] = fetched[i][f]]_vars

\* C15 witness: a stored, ungraded short answer has been returned as graded
\* with its text and joined question, and the stored row is still ungraded.
C15_ReturnedGradedStoredUngraded ==
  /\ graded.status = "data"
  /\ Len(graded.data) >= 1
  /\ graded.data[1].is_auto_graded
  /\ graded.data[1].answer_text = Some(<<"P">>)
  /\ IsSome(graded.data[1].question)
  /\ \A i \in 1..Len(student_answers) :
       /\ ~student_answers[i].is_auto_graded
       /\ student_answers[i].points_awarded = None

(* Properties of saveAnswer, stated on the states of SpecStore *)

\* the rows stored for a (session, question) pair
RowsFor(p) ==
  {i \in 1..Len(student_answers) :
     /\ student_answers[i].session_id = p[1]
     /\ student_answers[i].question_id = Some(p[2])}

\* the payload columns of a row that hold a value
Populated(r) ==
  {c \in {"selected_options", "matching_answers", "answer_text"} : IsSome(r[c])}

\* C16: once saveAnswer has been called for a (session, question) pair the
\* table holds one row for the pair, with the payload of the latest call
\* and exactly one payload column populated.
C16_OneRowLatestPayload ==
  \A p \in DOMAIN latest :
    /\ Cardinality(RowsFor(p)) = 1
    /\ \A i \in RowsFor(p) :
         /\ student_answers[i].selected_options = latest[p].selected_options
         /\ student_answers[i].matching_answers = latest[p].matching_answers
         /\ student_answers[i].answer_text = latest[p].answer_text
         /\ Cardinality(Populated(student_answers[i])) = 1

(* Properties of gradeShortAnswer, stated on the states of Spec *)

\* const studentAnswer = (answer.answer_text || '').trim().toLowerCase()
Normalized == toLowerCase(trim(AnswerText))

\* the text of key i as stored
KeyText(q, i) == Get(KeysOf(q)[i].correct_answer)

\* C17: a case-sensitive key is compared as stored with the trimmed,
\* lower-cased answer, a case-insensitive key is lower-cased first; the
\* answer earns the points exactly when some key equals it so.
C17_RawCaseSensitiveKey ==
  (/\ Scored
   /\ TheQuestion.question_type = "short_answer"
   /\ WellFormed(TheQuestion))
    => (outcome = Return(FullPoints(TheQuestion))
          <=> \E i \in 1..Len(KeysOf(TheQuestion)) :
                IF KeysOf(TheQuestion)[i].is_case_sensitive
                THEN Normalized = KeyText(TheQuestion, i)
                ELSE Normalized = toLowerCase(KeyText(TheQuestion, i)))

\* key i is present and equals the answer as the loop compares them
Hit(q, i) ==
  /\ IsSome(KeysOf(q)[i].correct_answer)
  /\ Normalized = toLowerCase(KeyText(q, i))

\* key i is the first hit and the loop reaches it
FirstHit(q, i) ==
  /\ Hit(q, i)
  /\ \A j \in 1..(i - 1) : IsSome(KeysOf(q)[j].correct_answer) /\ ~Hit(q, j)

\* C18: a short answer earns 0 or the full points and nothing in between:
\* the full points when the scan in stored order reaches a key that equals
\* the answer, whatever follows that key and however many keys equal it,
\* and 0 when no key equals it.
C18_AllOrNothingFirstMatch ==
  (Scored /\ TheQuestion.question_type = "short_answer")
    => /\ ~outcome.threw => outcome.points \in {Zero, FullPoints(TheQuestion)}
       /\ (\E i \in 1..Len(KeysOf(TheQuestion)) : FirstHit(TheQuestion, i))
            => outcome = Return(FullPoints(TheQuestion))
       /\ (/\ WellFormed(TheQuestion)
           /\ \A i \in 1..Len(KeysOf(TheQuestion)) : ~Hit(TheQuestion, i))
            => outcome = Return(Zero)

\* C18 witness: two keys, "p" and "P", both equal to the answer "P"; the
\* answer earns the 4 points once.
C18_TwoKeysHitOnce ==
  /\ Scored
  /\ TheQuestion.question_type = "short_answer"
  /\ Len(KeysOf(TheQuestion)) = 2
  /\ Hit(TheQuestion, 1) /\ Hit(TheQuestion, 2)
  /\ KeyText(TheQuestion, 1) # KeyText(TheQuestion, 2)
  /\ AnswerText = <<"P">>
  /\ outcome = Return(Num(4))

(* Properties of gradeMatching, stated on the states of Spec *)

\* the left items of the question's pairs
LeftItems(q) == {Get(PairsOf(q)[i].left_item) : i \in 1..Len(PairsOf(q))}

\* the entries of the student's map that send a left item to something
\* other than a right item paired with it
WrongEntries(q) ==
  {k \in DOMAIN StudentMap \cap LeftItems(q) :
     \A i \in 1..Len(PairsOf(q)) :
       Get(PairsOf(q)[i].left_item) = k => Get(PairsOf(q)[i].right_item) # StudentMap[k]}

\* the score of the row with the student's map cut down to the keys in D
ScoreWithKeys(D) ==
  calculatePoints([answer EXCEPT !.matching_answers = Some([k \in D |-> StudentMap[k]])])

\* C19: the score of a matching answer is the score of the same answer
\* without its entries under keys that no pair has, however many of them are
\* left out, and the score of the same answer without any one of its wrong
\* entries.
C19_ExtraneousAndWrongIgnored ==
  (/\ Scored
   /\ TheQuestion.question_type = "matching"
   /\ WellFormed(TheQuestion))
    => /\ \A X \in SUBSET (DOMAIN StudentMap \ LeftItems(TheQuestion)) :
            outcome = ScoreWithKeys(DOMAIN StudentMap \ X)
       /\ \A k \in WrongEntries(TheQuestion) :
            outcome = ScoreWithKeys(DOMAIN StudentMap \ {k})

\* C19 witness: two pairs worth 4 points; the student's map has the first
\* pair right, the second wrong and an entry under a key that no pair has,
\* and earns 2.
C19_OneRightOneWrongOneExtra ==
  /\ Scored
  /\ TheQuestion.question_type = "matching"
  /\ WellFormed(TheQuestion)
  /\ Len(PairsOf(TheQuestion)) = 2
  /\ SatisfiedPairs(TheQuestion) = {1}
  /\ WrongEntries(TheQuestion) = {LeftOf(2)}
  /\ DOMAIN StudentMap \ LeftItems(TheQuestion) = {ExtraLeft}
  /\ outcome = Return(Num(2))

(* Properties of gradeMultipleSelect, stated on the states of Spec *)

\* the score of the row with option id x selected in addition
ScoreWithSelected(x) ==
  calculatePoints([answer EXCEPT !.selected_options = Some(Append(SelectedList, x))])

\* C20: on a multiple_select question with at least one correct option, a
\* selection earns the full points exactly when it consists of every correct
\* option and nothing else; the empty selection earns 0; a selection with at
\* least as many incorrect as correct options earns 0; and selecting one more
\* incorrect option never raises the score.
C20_SymmetricPenalty ==
  (/\ Scored
   /\ TheQuestion.question_type = "multiple_select"
   /\ WellFormed(TheQuestion)
   /\ CorrectSet(TheQuestion) # {})
    => /\ outcome = Return(FullPoints(TheQuestion))
            <=> SelectedSet = CorrectSet(TheQuestion)
       /\ SelectedSet = {} => outcome = Return(Zero)
       /\ Cardinality(SelectedSet \ CorrectSet(TheQuestion))
            >= Cardinality(SelectedSet \cap CorrectSet(TheQuestion))
            => outcome = Return(Zero)
       /\ \A x \in {OptionIds[i] : i \in 1..MaxOptions} \ CorrectSet(TheQuestion) :
            Leq(ScoreWithSelected(x).points, outcome.points)

(* Further properties of gradeSession: the session's status *)

\* the status of the exam session with the given id
StatusOf(sessionId) ==
  LET i == CHOOSE j \in 1..Len(exam_sessions) : exam_sessions[j].id = sessionId
  IN  exam_sessions[i].status

\* C21: gradeSession produces graded answers only for a finished session; no
\* answer of a session whose status is 'active' comes back marked
\* auto-graded or with points awarded.
C21_OnlyFinishedSessionGraded ==
  \A i \in 1..Len(GradedRows) :
    StatusOf(GradedRows[i].session_id) = "active"
      => /\ ~GradedRows[i].is_auto_graded
         /\ GradedRows[i].points_awarded = None

(* Properties of the scorer over the stored points, stated on SpecPoints *)

\* the answer of the row has everything right for its question
AnswersCorrectly(q) ==
  CASE q.question_type = "multiple_choice" ->
         /\ CorrectSet(q) # {}
         /\ SelectedList = <<CorrectIds(OptionsOf(q))[1]>>
    [] q.question_type = "multiple_select" ->
         /\ CorrectSet(q) # {}
         /\ SelectedSet = CorrectSet(q)
         /\ Len(SelectedList) = Cardinality(SelectedSet)
    [] q.question_type = "matching" ->
         /\ Len(PairsOf(q)) > 0
         /\ SatisfiedPairs(q) = 1..Len(PairsOf(q))
    [] q.question_type = "short_answer" ->
         /\ Len(KeysOf(q)) > 0
         /\ AnswerText = KeyText(q, 1)
    [] OTHER -> FALSE

\* C22: a fully correct answer earns exactly the question's stored points,
\* whatever they are, and 1 only when the question has no points value.
C22_FullyCorrectEarnsStoredPoints ==
  (Scored /\ WellFormed(TheQuestion) /\ AnswersCorrectly(TheQuestion))
    => outcome = Return(FullPoints(TheQuestion))

(* Properties of MatchingComponent, stated on the states of SpecMatching *)

\* C23: the connections map is a symmetric one-to-one pairing: the partner
\* of an item has that item as its partner, and no item is the partner of
\* two different items.
C23_SymmetricPairing ==
  /\ \A a \in DOMAIN connections :
       /\ connections[a] \in DOMAIN connections
       /\ connections[connections[a]] = a
  /\ \A a, b \in DOMAIN connections : connections[a] = connections[b] => a = b

(* Further properties of gradeMatching, stated on the states of Spec *)

\* the right items paired with the left item l
RightsOf(q, l) ==
  {Get(PairsOf(q)[i].right_item) :
     i \in {j \in 1..Len(PairsOf(q)) : Get(PairsOf(q)[j].left_item) = l}}

\* the student maps that send every left item to a right item paired with
\* it; a map that earns the credit of every pair is one of them
AnsweringMaps(q) ==
  IF \A l \in LeftItems(q) : Cardinality(RightsOf(q, l)) = 1
  THEN {[l \in LeftItems(q) |-> CHOOSE r \in RightsOf(q, l) : TRUE]}
  ELSE {m \in [LeftItems(q) -> UNION {RightsOf(q, l) : l \in LeftItems(q)}] :
          \A l \in LeftItems(q) : m[l] \in RightsOf(q, l)}

\* C24: for a matching question with at least one pair some student map
\* earns the question's full points.
C24_MatchingAnswerable ==
  (/\ Scored
   /\ TheQuestion.question_type = "matching"
   /\ WellFormed(TheQuestion)
   /\ Len(PairsOf(TheQuestion)) >= 1)
    => \E m \in AnsweringMaps(TheQuestion) :
         calculatePoints([answer EXCEPT !.matching_answers = Some(m)])
           = Return(FullPoints(TheQuestion))

\* C25: while the component is readOnly no step changes the connections,
\* the order of the left or the right items or the active item, and onMatch
\* is never called.
C25_ReadOnlyFrozen ==
  [][readOnly => /\ connections' = connections
                 /\ leftSide' = leftSide
                 /\ rightSide' = rightSide
                 /\ activeId' = activeId
                 /\ onMatch' = None]_vars

\* C25 witness: a readOnly component with a connection and two items on each
\* side, in the middle of a drag gesture.
C25_ReadOnlyDragInProgress ==
  /\ readOnly
  /\ IsSome(dragging)
  /\ activeId = None
  /\ connections # <<>>
  /\ Len(leftSide) = 2
  /\ Len(rightSide) = 2

\* C26: a step that changes the connections passes exactly the new map to
\* onMatch, so once onMatch has been called its last argument is the
\* current map; a step that reorders one side leaves the other side, the
\* connections and onMatch as they are.
C26_OnMatchFollowsConnections ==
  [][/\ connections' # connections => onMatch' = Some(connections')
     /\ IsSome(onMatch') => onMatch' = Some(connections')
     /\ leftSide' # leftSide
          => rightSide' = rightSide /\ connections' = connections /\ onMatch' = onMatch
     /\ rightSide' # rightSide
          => leftSide' = leftSide /\ connections' = connections /\ onMatch' = onMatch]_vars

\* C26 witness: after a connection was made and passed to onMatch, the two
\* left items have been swapped by a drag within the left side.
C26_ReorderedAfterConnect ==
  /\ ~readOnly
  /\ leftSide = <<ItemId("left", 1), ItemId("left", 0)>>
  /\ connections # <<>>
  /\ connections \notin InitialConnections
  /\ onMatch = Some(connections)

(* Further properties of gradeSession: a failed fetch *)

\* C27: when the fetch fails gradeSession returns the error alone, with no
\* graded row, and no stored answer is marked auto-graded or given points;
\* when it succeeds it returns the graded list, one auto-graded row with
\* points for every answer of the session.
C27_ErrorAloneOrGradedList ==
  /\ graded.status = "error"
       => /\ graded.data = <<>>
          /\ \A i \in 1..Len(student_answers) :
               /\ ~student_answers[i].is_auto_graded
               /\ student_answers[i].points_awarded = None
  /\ graded.status = "data"
       => /\ \E s \in Sessions : Len(graded.data) = Len(RowsOf(s))
          /\ \A i \in 1..Len(graded.data) :
               /\ graded.data[i].is_auto_graded
               /\ IsSome(graded.data[i].points_awarded)

\* C27 witness: the fetch failed for a session with two stored answers.
C27_FetchFailedWithAnswers ==
  /\ graded.status = "error"
  /\ Len(student_answers) = 2
  /\ student_answers[1].session_id = student_answers[2].session_id

(* Properties of the requests under row-level security, stated on SpecAccess *)

\* the exam_sessions rows of an (exam, student) pair
SessionsOf(examId, studentId) ==
  {i \in 1..Len(exam_sessions) :
     exam_sessions[i].exam_id = examId /\ exam_sessions[i].student_id = studentId}

\* C28: there is at most one exam session per (exam_id, student_id) and every
\* session has status 'active'; a createExamSession call for a pair that
\* has a session returns an error and leaves the table as it is.
C28_OneActiveSessionPerPair ==
  [][/\ \A i, j \in 1..Len(exam_sessions') :
          (/\ exam_sessions'[i].exam_id = exam_sessions'[j].exam_id
           /\ exam_sessions'[i].student_id = exam_sessions'[j].student_id) => i = j
     /\ \A i \in 1..Len(exam_sessions') : exam_sessions'[i].status = "active"
     /\ (/\ reply'.op = "createExamSession"
         /\ SessionsOf(reply'.exam_id, reply'.student_id) # {})
          => reply'.status = "error" /\ exam_sessions' = exam_sessions]_vars

\* C28 witness: a student's second createExamSession call for an exam they
\* have a session of was answered with an error.
C28_SecondCallRefused ==
  /\ reply.op = "createExamSession"
  /\ reply.status = "error"
  /\ uid = Some(reply.student_id)
  /\ Cardinality(SessionsOf(reply.exam_id, reply.student_id)) = 1

\* the users that the users table holds as students
Students == {u \in DOMAIN UsersTable : UsersTable[u] = "student"}

\* the student_id of the exam session with the given id
OwnerOf(sessionId) ==
  LET i == CHOOSE j \in 1..Len(exam_sessions) : exam_sessions[j].id = sessionId
  IN  exam_sessions[i].student_id

\* C29: whatever requests a student makes, a row they insert into
\* student_answers belongs to a session of their own, every row a select
\* returns to them belongs to a session of their own, and a session they
\* create carries their own id as student_id.
C29_StudentConfinedToOwnSessions ==
  [][Get(uid') \in Students
       => /\ Len(student_answers') > Len(student_answers)
               => OwnerOf(student_answers'[Len(student_answers')].session_id) = Get(uid')
          /\ reply'.op = "select"
               => \A i \in 1..Len(reply'.rows) :
                    OwnerOf(reply'.rows[i].session_id) = Get(uid')
          /\ Len(exam_sessions') > Len(exam_sessions)
               => exam_sessions'[Len(exam_sessions')].student_id = Get(uid')]_vars

(* Properties of App, stated on the states of SpecApp *)

\* C30: once the result of getCurrentUser() and every auth state change
\* have been delivered, the user state is the user of the current session,
\* null after a sign-out.
C30_UserFollowsAuthState ==
  (currentUser.state = "delivered" /\ authEvents = <<>>) => user = authUser

====
